---- MODULE Spec2Model ----
(***************************************************************************)
(* gcs-export (src/bin/gcs-export.cpp): a one-shot exporter that reads     *)
(* Latitude, Longitude and TimeZone from the FPP settings JSON, embeds the *)
(* locale document, validates the values and writes fpp-env.json.          *)
(*                                                                         *)
(* A std::string is a sequence of text chunks; the coordinate strings are  *)
(* written one character per chunk so that atof can scan them.  A double   *)
(* is a decimal [neg, m, e] standing for (-1)^neg * m / 10^e.  A           *)
(* Json::Value is a record [t, v] with t the value's type.  A file is      *)
(* [exists, text]; the text of a JSON document is the sequence of its      *)
(* <<key, rendered value>> members.                                        *)
(*                                                                         *)
(* Environment assumptions: a stream that opened does not fail afterwards, *)
(* and the environment (settings file, locale document, writability of the *)
(* output path) does not change between the runs of one behaviour.         *)
(***************************************************************************)
EXTENDS Integers, Sequences, FiniteSets, TLC

VARIABLES settingsFile, localeDoc, outputWritable, outFile,
          pc, root, settings, latStr, lonStr, tz, lat, lon, ok,
          stderr, exitCode, fileAtStart, writes, openFailed,
          run, prevExit, prevFile, prevWrites

envVars == <<settingsFile, localeDoc, outputWritable>>
procVars == <<pc, root, settings, latStr, lonStr, tz, lat, lon, ok,
              stderr, exitCode, fileAtStart, writes, openFailed>>
histVars == <<run, prevExit, prevFile, prevWrites>>
vars == <<envVars, outFile, procVars, histVars>>

\* Number of invocations of the exporter in one behaviour.
MaxRuns == 2

-----------------------------------------------------------------------------
(* Json::Value *)

JNull == [t |-> "null", v |-> <<>>]
JBool(b) == [t |-> "bool", v |-> b]
JInt(n) == [t |-> "int", v |-> n]
JReal(d) == [t |-> "real", v |-> d]
JStr(s) == [t |-> "string", v |-> s]
JObj(m) == [t |-> "object", v |-> m]
\* A member that the object does not have.
Absent == [t |-> "absent", v |-> <<>>]

Put(r, k, val) == [x \in (DOMAIN r) \cup {k} |-> IF x = k THEN val ELSE r[x]]

EmptyValue == [x \in {} |-> JNull]

-----------------------------------------------------------------------------
(* double and atof *)

Zero == [neg |-> FALSE, m |-> 0, e |-> 0]

IsZero(d) == d.m = 0

RECURSIVE Normalize(_)
Normalize(d) ==
    IF d.e > 0 /\ d.m % 10 = 0
    THEN Normalize([neg |-> d.neg, m |-> d.m \div 10, e |-> d.e - 1])
    ELSE d

Digits == <<"0", "1", "2", "3", "4", "5", "6", "7", "8", "9">>

IsDigit(c) == \E i \in 1..10 : Digits[i] = c

DigitVal(c) == (CHOOSE i \in 1..10 : Digits[i] = c) - 1

IsSpace(c) == c \in {" ", "\t", "\n"}

RECURSIVE SkipSpace(_, _)
SkipSpace(s, i) ==
    IF i <= Len(s) /\ IsSpace(s[i]) THEN SkipSpace(s, i + 1) ELSE i

RECURSIVE ScanDigits(_, _, _, _)
ScanDigits(s, i, acc, cnt) ==
    IF i <= Len(s) /\ IsDigit(s[i])
    THEN ScanDigits(s, i + 1, acc * 10 + DigitVal(s[i]), cnt + 1)
    ELSE [val |-> acc, next |-> i, cnt |-> cnt]

\* atof: leading white space, an optional sign, digits with an optional
\* decimal point; 0.0 when no number can be scanned.  (Exponents, hex, inf
\* and nan are not in the model's inputs.)
atof(s) ==
    LET i0 == SkipSpace(s, 1)
        neg == i0 <= Len(s) /\ s[i0] = "-"
        i1 == IF i0 <= Len(s) /\ s[i0] \in {"+", "-"} THEN i0 + 1 ELSE i0
        ip == ScanDigits(s, i1, 0, 0)
        hasPoint == ip.next <= Len(s) /\ s[ip.next] = "."
        fp == IF hasPoint THEN ScanDigits(s, ip.next + 1, ip.val, 0)
              ELSE [val |-> ip.val, next |-> ip.next, cnt |-> 0]
    IN IF ip.cnt + fp.cnt = 0 THEN Zero
       ELSE Normalize([neg |-> neg, m |-> fp.val, e |-> fp.cnt])

-----------------------------------------------------------------------------
(* Serialisation *)

RECURSIVE ToDigits(_)
ToDigits(n) ==
    IF n < 10 THEN <<Digits[n + 1]>>
    ELSE ToDigits(n \div 10) \o <<Digits[(n % 10) + 1]>>

RECURSIVE PadLeft(_, _)
PadLeft(ds, n) == IF Len(ds) >= n THEN ds ELSE PadLeft(<<"0">> \o ds, n)

\* A double is written with a decimal point; a whole number gets ".0".
FormatReal(d) ==
    LET ds == PadLeft(ToDigits(d.m), d.e + 1)
        ip == SubSeq(ds, 1, Len(ds) - d.e)
        fp == IF d.e = 0 THEN <<"0">> ELSE SubSeq(ds, Len(ds) - d.e + 1, Len(ds))
    IN (IF d.neg THEN <<"-">> ELSE <<>>) \o ip \o <<".">> \o fp

Render(j) ==
    CASE j.t = "string" -> <<"\"">> \o j.v \o <<"\"">>
      [] j.t = "bool" -> IF j.v THEN <<"true">> ELSE <<"false">>
      [] j.t = "int" -> ToDigits(j.v)
      [] j.t = "real" -> FormatReal(j.v)
      [] j.t = "object" -> j.v
      [] OTHER -> <<"null">>

\* The members of an object are kept in a std::map, so they are written in
\* the order of their keys.
KeyOrder == <<"error", "latitude", "longitude", "ok", "rawLocale",
              "schemaVersion", "source", "timezone">>

toStyledString(r) ==
    LET ks == SelectSeq(KeyOrder, LAMBDA k : k \in DOMAIN r)
    IN [i \in 1..Len(ks) |-> <<ks[i], Render(r[ks[i]])>>]

HasField(text, k) == \E i \in 1..Len(text) : text[i][1] = k

FieldText(text, k) == text[CHOOSE i \in 1..Len(text) : text[i][1] = k][2]

-----------------------------------------------------------------------------
(* Constants of the program *)

SETTINGS_PATH == "/home/fpp/media/settings"

OUTPUT_PATH == "/home/fpp/media/plugins/GoogleCalendarScheduler/runtime/fpp-env.json"

SettingsOpenError == <<"Unable to open FPP settings file.">>

CoordError == <<"Latitude/Longitude not present (or zero) in FPP settings.">>

TzError == <<"Timezone not present in FPP settings.">>

SettingsErrorLine == [prefix |-> "ERROR:", text |-> <<"Unable to open ", SETTINGS_PATH>>]

CoordWarnLineAsError == [prefix |-> "ERROR:", text |-> CoordError]

CoordWarnLine == [prefix |-> "WARN:", text |-> CoordError]

TzWarnLine == [prefix |-> "WARN:", text |-> TzError]

OutputErrorLine == [prefix |-> "ERROR:", text |-> <<"Unable to write ", OUTPUT_PATH>>]

-----------------------------------------------------------------------------
(* readSetting *)

readSetting(s, key) ==
    IF s.t # "object" THEN <<>>
    ELSE IF s.v[key].t = "absent" THEN <<>>
    ELSE IF s.v[key].t # "string" THEN <<>>
    ELSE s.v[key].v

-----------------------------------------------------------------------------
(* Validation (lines 82-102) *)

CoordMissingBoth(la, lo) == IsZero(la) /\ IsZero(lo)

CoordMissing(la, lo) == IsZero(la) \/ IsZero(lo)

TzMissing(z) == Len(z) = 0

ValidOk(la, lo, z) == ~CoordMissing(la, lo) /\ ~TzMissing(z)

\* Faulty variants of ValidatedRoot: the timezone check forgets the error
\* field; a check keeps an error that is already there.
ValidatedRootTzSilent(r, la, lo, z) ==
    LET r1 == IF CoordMissing(la, lo) THEN Put(r, "error", JStr(CoordError)) ELSE r
    IN Put(r1, "ok", JBool(ValidOk(la, lo, z)))

ValidatedRootFirstWins(r, la, lo, z) ==
    LET r1 == IF CoordMissing(la, lo) /\ "error" \notin DOMAIN r
              THEN Put(r, "error", JStr(CoordError)) ELSE r
        r2 == IF TzMissing(z) /\ "error" \notin DOMAIN r1
              THEN Put(r1, "error", JStr(TzError)) ELSE r1
    IN Put(r2, "ok", JBool(ValidOk(la, lo, z)))

ValidatedRoot(r, la, lo, z) ==
    LET r1 == IF CoordMissing(la, lo) THEN Put(r, "error", JStr(CoordError)) ELSE r
        r2 == IF TzMissing(z) THEN Put(r1, "error", JStr(TzError)) ELSE r1
    IN Put(r2, "ok", JBool(ValidOk(la, lo, z)))

ValidationLinesShortCircuit(la, lo, z) ==
    IF CoordMissing(la, lo) THEN <<CoordWarnLine>>
    ELSE IF TzMissing(z) THEN <<TzWarnLine>> ELSE <<>>

ValidationLines(la, lo, z) ==
    (IF CoordMissing(la, lo) THEN <<CoordWarnLine>> ELSE <<>>)
      \o (IF TzMissing(z) THEN <<TzWarnLine>> ELSE <<>>)

-----------------------------------------------------------------------------
(* Output (lines 107-116) *)

\* std::ofstream out(OUTPUT_PATH): the file is created or truncated when the
\* path can be opened, and left alone when it cannot.
OpenOutputAppend(f, writable) ==
    IF writable THEN [good |-> TRUE, file |-> [exists |-> TRUE, text |-> f.text]]
    ELSE [good |-> FALSE, file |-> f]

OpenOutput(f, writable) ==
    IF writable THEN [good |-> TRUE, file |-> [exists |-> TRUE, text |-> <<>>]]
    ELSE [good |-> FALSE, file |-> f]

ExitStatusSwapped(okv) == IF okv THEN 1 ELSE 0

ExitStatus(okv) == IF okv THEN 0 ELSE 1

OpenFailureStatusAsInvalid == ExitStatus(FALSE)

OpenFailureStatus == 2

-----------------------------------------------------------------------------
(* Environment *)

Str(chunk) == <<chunk>>

LatEntries == {Absent, JReal(atof(<<"4", "1", ".", "8">>)),
               JStr(<<>>), JStr(<<"0">>), JStr(<<"0", ".", "0">>),
               JStr(<<"4", "1", ".", "8">>), JStr(<<"a", "b", "c">>)}

LonEntries == {Absent, JInt(5),
               JStr(<<>>), JStr(<<"-", "0">>), JStr(<<"-", "8", "7", ".", "6">>),
               JStr(<<" ", ".", "5">>)}

TzEntries == {Absent, JBool(TRUE), JStr(<<>>), JStr(Str("America/Chicago"))}

SettingsObjects ==
    {JObj([k \in {"Latitude", "Longitude", "TimeZone"} |->
             CASE k = "Latitude" -> la [] k = "Longitude" -> lo [] OTHER -> z]) :
        la \in LatEntries, lo \in LonEntries, z \in TzEntries}

\* The settings file: cannot be opened, opens but is not JSON, or holds a
\* JSON value (an object, or something else such as an array).
SettingsFiles ==
    {[kind |-> "unopenable", doc |-> JNull], [kind |-> "unparsable", doc |-> JNull],
     [kind |-> "json", doc |-> JInt(7)]}
      \cup {[kind |-> "json", doc |-> o] : o \in SettingsObjects}

LocaleDocs == {JNull, JObj(Str("{ locale }"))}

NoFile == [exists |-> FALSE, text |-> <<>>]

StaleFile == [exists |-> TRUE, text |-> <<<<"stale", Str("1")>>>>]

-----------------------------------------------------------------------------
(* The program *)

Init ==
    /\ settingsFile \in SettingsFiles
    /\ localeDoc \in LocaleDocs
    /\ outputWritable \in BOOLEAN
    /\ outFile \in {NoFile, StaleFile}
    /\ pc = "start"
    /\ root = EmptyValue
    /\ settings = JNull
    /\ latStr = <<>> /\ lonStr = <<>> /\ tz = <<>>
    /\ lat = Zero /\ lon = Zero
    /\ ok = TRUE
    /\ stderr = <<>>
    /\ exitCode = -1
    /\ fileAtStart = outFile
    /\ writes = 0
    /\ openFailed = FALSE
    /\ run = 1
    /\ prevExit = -1
    /\ prevFile = NoFile
    /\ prevWrites = 0

\* Lines 40-57.  operator>> of jsoncpp throws Json::RuntimeError when the
\* stream does not parse; main has no handler, so the process is terminated
\* by std::terminate (SIGABRT, status 134 as seen by a shell).
LoadSettings ==
    /\ pc = "start"
    /\ LET r0 == Put(Put(EmptyValue, "schemaVersion", JInt(1)),
                     "source", JStr(Str("gcs-export")))
       IN CASE settingsFile.kind = "unopenable" ->
                 /\ root' = Put(Put(r0, "ok", JBool(FALSE)),
                                "error", JStr(SettingsOpenError))
                 /\ stderr' = Append(stderr, SettingsErrorLine)
                 /\ settings' = JNull
                 /\ pc' = "extract"
                 /\ exitCode' = exitCode
            [] settingsFile.kind = "unparsable" ->
                 /\ root' = r0
                 /\ stderr' = stderr
                 /\ settings' = JNull
                 /\ pc' = "aborted"
                 /\ exitCode' = 134
            [] OTHER ->
                 /\ root' = r0
                 /\ stderr' = stderr
                 /\ settings' = settingsFile.doc
                 /\ pc' = "extract"
                 /\ exitCode' = exitCode
    /\ UNCHANGED <<envVars, outFile, latStr, lonStr, tz, lat, lon, ok,
                   fileAtStart, writes, openFailed, histVars>>

\* Lines 62-71.
ExtractValues ==
    /\ pc = "extract"
    /\ LET ls == readSetting(settings, "Latitude")
           os == readSetting(settings, "Longitude")
           zs == readSetting(settings, "TimeZone")
           la == IF Len(ls) = 0 THEN Zero ELSE atof(ls)
           lo == IF Len(os) = 0 THEN Zero ELSE atof(os)
       IN /\ latStr' = ls /\ lonStr' = os /\ tz' = zs
          /\ lat' = la /\ lon' = lo
          /\ root' = Put(Put(Put(root, "latitude", JReal(la)),
                             "longitude", JReal(lo)), "timezone", JStr(zs))
    /\ pc' = "locale"
    /\ UNCHANGED <<envVars, outFile, settings, ok, stderr, exitCode,
                   fileAtStart, writes, openFailed, histVars>>

\* Lines 76-77.
LoadLocale ==
    /\ pc = "locale"
    /\ root' = Put(root, "rawLocale", localeDoc)
    /\ pc' = "validate"
    /\ UNCHANGED <<envVars, outFile, settings, latStr, lonStr, tz, lat, lon, ok,
                   stderr, exitCode, fileAtStart, writes, openFailed, histVars>>

\* Lines 82-102.
Validate ==
    /\ pc = "validate"
    /\ ok' = ValidOk(lat, lon, tz)
    /\ root' = ValidatedRoot(root, lat, lon, tz)
    /\ stderr' = stderr \o ValidationLines(lat, lon, tz)
    /\ pc' = "persist"
    /\ UNCHANGED <<envVars, outFile, settings, latStr, lonStr, tz, lat, lon,
                   exitCode, fileAtStart, writes, openFailed, histVars>>

\* Lines 107-116.
WriteOutput ==
    /\ pc = "persist"
    /\ LET out == OpenOutput(outFile, outputWritable)
       IN IF ~out.good
          THEN /\ stderr' = Append(stderr, OutputErrorLine)
               /\ outFile' = out.file
               /\ openFailed' = TRUE
               /\ writes' = writes
               /\ exitCode' = OpenFailureStatus
          ELSE /\ stderr' = stderr
               /\ outFile' = [out.file EXCEPT !.text = @ \o toStyledString(root)]
               /\ openFailed' = FALSE
               /\ writes' = writes + 1
               /\ exitCode' = ExitStatus(ok)
    /\ pc' = "exit"
    /\ UNCHANGED <<envVars, root, settings, latStr, lonStr, tz, lat, lon, ok,
                   fileAtStart, histVars>>

Terminated == pc \in {"exit", "aborted"}

\* The exporter is invoked again, as a new process, with the environment and
\* the output file as the previous run left them.
Invoke ==
    /\ Terminated
    /\ run < MaxRuns
    /\ run' = run + 1
    /\ prevExit' = exitCode
    /\ prevFile' = outFile
    /\ prevWrites' = writes
    /\ pc' = "start"
    /\ root' = EmptyValue
    /\ settings' = JNull
    /\ latStr' = <<>> /\ lonStr' = <<>> /\ tz' = <<>>
    /\ lat' = Zero /\ lon' = Zero
    /\ ok' = TRUE
    /\ stderr' = <<>>
    /\ exitCode' = -1
    /\ fileAtStart' = outFile
    /\ writes' = 0
    /\ openFailed' = FALSE
    /\ UNCHANGED <<envVars, outFile>>

Next ==
    \/ LoadSettings
    \/ ExtractValues
    \/ LoadLocale
    \/ Validate
    \/ WriteOutput
    \/ Invoke

Spec == Init /\ [][Next]_vars

-----------------------------------------------------------------------------
(* Properties *)

DocWritten == pc = "exit" /\ writes = 1

DocOk == FieldText(outFile.text, "ok") = <<"true">>

DocNotOk == FieldText(outFile.text, "ok") = <<"false">>

HasLine(l) == \E i \in 1..Len(stderr) : stderr[i] = l

\* The string a settings entry supplies: none when the file cannot be opened,
\* is not an object, or the entry is absent or not a string.
EntryString(key) ==
    IF /\ settingsFile.kind = "json"
       /\ settingsFile.doc.t = "object"
       /\ settingsFile.doc.v[key].t = "string"
    THEN settingsFile.doc.v[key].v
    ELSE <<>>

CoordPresent(key) == EntryString(key) # <<>> /\ ~IsZero(atof(EntryString(key)))

TzPresent == EntryString("TimeZone") # <<>>

AllPresent == TzPresent /\ CoordPresent("Latitude") /\ CoordPresent("Longitude")

\* C1: a run exits 0 exactly when the document was written with ok true, 1
\* exactly when it was written with ok false, and 2 exactly when the output
\* path could not be opened, in which case nothing is written.
ExitCodeContract ==
    Terminated =>
        /\ exitCode = 0 <=> (writes = 1 /\ DocOk)
        /\ exitCode = 1 <=> (writes = 1 /\ DocNotOk)
        /\ exitCode = 2 <=> openFailed
        /\ openFailed => writes = 0 /\ outFile = fileAtStart

ExitZeroWitness == DocWritten /\ exitCode = 0 /\ DocOk /\ fileAtStart = StaleFile

\* C2: in a written document ok is true iff the timezone entry is a
\* non-empty string and both coordinate entries are strings that convert to
\* a non-zero number; Latitude="0" gives ok false; a settings-open failure
\* does not change this.
OkIffAllPresent ==
    DocWritten =>
        /\ DocOk <=> AllPresent
        /\ DocNotOk <=> ~AllPresent
        /\ EntryString("Latitude") = <<"0">> => DocNotOk

LatitudeZeroWitness ==
    /\ DocWritten
    /\ EntryString("Latitude") = <<"0">>
    /\ CoordPresent("Longitude")
    /\ TzPresent
    /\ DocNotOk

\* C3: a written document has an error field iff its ok field is false.
ErrorIffNotOk ==
    DocWritten => (HasField(outFile.text, "error") <=> DocNotOk)

TzOnlyMissingWitness ==
    /\ DocWritten
    /\ CoordPresent("Latitude") /\ CoordPresent("Longitude") /\ ~TzPresent
    /\ HasField(outFile.text, "error")

\* C4: when the output path cannot be opened the run writes nothing, leaves
\* the file as it was, emits an ERROR: line and exits 2, whatever validation
\* found.
OpenFailureWritesNothing ==
    (pc = "exit" /\ ~outputWritable) =>
        /\ writes = 0
        /\ outFile = fileAtStart
        /\ Len(stderr) > 0 /\ stderr[Len(stderr)] = OutputErrorLine
        /\ exitCode = 2

OpenFailureWitness ==
    pc = "exit" /\ ~outputWritable /\ ok /\ fileAtStart = StaleFile

\* C5: when the settings file cannot be opened and the output is writable,
\* the document is written with timezone "", latitude 0.0, longitude 0.0,
\* ok false and a validation message as error, and the run exits 1.
SettingsMissingStillWrites ==
    (pc = "exit" /\ settingsFile.kind = "unopenable" /\ outputWritable) =>
        /\ writes = 1
        /\ FieldText(outFile.text, "timezone") = <<"\"", "\"">>
        /\ FieldText(outFile.text, "latitude") = <<"0", ".", "0">>
        /\ FieldText(outFile.text, "longitude") = <<"0", ".", "0">>
        /\ DocNotOk
        /\ FieldText(outFile.text, "error")
             \in {Render(JStr(CoordError)), Render(JStr(TzError))}
        /\ FieldText(outFile.text, "error") # Render(JStr(SettingsOpenError))
        /\ exitCode = 1

SettingsMissingWitness ==
    pc = "exit" /\ settingsFile.kind = "unopenable" /\ outputWritable /\ writes = 1

\* C6: a settings file that opens but does not parse is absorbed: the run
\* does not end abnormally and, with a writable output, ends with a written
\* document marked ok false and exit code 1.
ParseFailureAbsorbed ==
    settingsFile.kind = "unparsable" =>
        /\ pc # "aborted"
        /\ (pc = "exit" /\ outputWritable) =>
               (writes = 1 /\ DocNotOk /\ exitCode = 1)

\* C7: both checks run; each failing check emits its WARN: line, coordinates
\* first; the error field holds the message of the last failing check.
WarnLines == SelectSeq(stderr, LAMBDA l : l.prefix = "WARN:")

NoShortCircuit ==
    pc \in {"persist", "exit"} =>
        LET cm == IsZero(lat) \/ IsZero(lon)
            tm == tz = <<>>
        IN /\ WarnLines = (IF cm THEN <<CoordWarnLine>> ELSE <<>>)
                            \o (IF tm THEN <<TzWarnLine>> ELSE <<>>)
           /\ tm => root["error"] = JStr(TzError)
           /\ (cm /\ ~tm) => root["error"] = JStr(CoordError)
           /\ (cm /\ tm) => WarnLines = <<CoordWarnLine, TzWarnLine>>
           /\ writes = 1 /\ (cm \/ tm) =>
                 FieldText(outFile.text, "error") = Render(root["error"])

BothMissingWitness ==
    /\ pc = "exit" /\ writes = 1
    /\ settingsFile.kind = "json"
    /\ IsZero(lat) /\ tz = <<>>
    /\ WarnLines = <<CoordWarnLine, TzWarnLine>>
    /\ FieldText(outFile.text, "error") = Render(JStr(TzError))

\* C8 as stated: a run that emits an ERROR: line ends with exit code 2.
ErrorLineMeansExitTwo ==
    (Terminated /\ \E i \in 1..Len(stderr) : stderr[i].prefix = "ERROR:")
        => exitCode = 2

\* C8 as amended: every ERROR: line reports a file that could not be opened
\* (the settings file, after which the run continues, or the output file,
\* after which the run exits 2); validation issues produce only WARN: lines.
ErrorLinesAreOpenFailures ==
    /\ \A i \in 1..Len(stderr) :
          /\ stderr[i].prefix \in {"ERROR:", "WARN:"}
          /\ stderr[i].prefix = "ERROR:" =>
                stderr[i] \in {SettingsErrorLine, OutputErrorLine}
          /\ stderr[i].text \in {CoordError, TzError} => stderr[i].prefix = "WARN:"
    /\ HasLine(SettingsErrorLine) <=> (pc # "start" /\ settingsFile.kind = "unopenable")
    /\ HasLine(OutputErrorLine) <=> (pc = "exit" /\ ~outputWritable)
    /\ HasLine(OutputErrorLine) => exitCode = 2
    /\ (pc = "exit" /\ HasLine(SettingsErrorLine) /\ outputWritable) => exitCode = 1
    /\ (pc = "exit" /\ (IsZero(lat) \/ IsZero(lon))) => HasLine(CoordWarnLine)

SettingsErrorExitOneWitness ==
    /\ pc = "exit" /\ exitCode = 1
    /\ HasLine(SettingsErrorLine) /\ HasLine(CoordWarnLine) /\ HasLine(TzWarnLine)

\* C9: a second run under the same configuration ends with the same exit
\* code and the same output document as the first, whatever the output file
\* held before; a written file holds the new document only.
RunsAgree ==
    (run > 1 /\ Terminated) =>
        /\ exitCode = prevExit
        /\ writes = prevWrites
        /\ outFile = prevFile
        /\ writes = 1 => outFile.text = toStyledString(root)

SecondRunWitness ==
    /\ run = 2 /\ pc = "exit" /\ writes = 1
    /\ fileAtStart # NoFile /\ fileAtStart # StaleFile
    /\ outFile = prevFile

\* C10: a run ends in exactly one of exit 0, 1 or 2, having written the
\* output at most once and only after validation fixed ok.
OneShotRun ==
    /\ Terminated => (pc = "exit" /\ exitCode \in {0, 1, 2})
    /\ writes <= 1
    /\ writes = 1 => (pc = "exit" /\ FieldText(outFile.text, "ok") = Render(JBool(ok)))

====
